---- MODULE Spec2Model ----
(***************************************************************************)
(* Model of streamlit.py: the Streamlit script that sends video files or a *)
(* video URL to Gemini.  One script run (one browser session's run of the  *)
(* module body) is a sequential process; the local disk, the remote file   *)
(* store and the st.cache_resource cache are shared between the runs.      *)
(* Every call that leaves the script (disk, genai, time.sleep) is appended *)
(* to the run's call log `calls`; the properties are stated over that log, *)
(* the disk and the rendered page.                                         *)
(***************************************************************************)
EXTENDS Integers, Sequences, FiniteSets, TLC

\* ------------------------------------------------------------------ bounds
MaxFiles == 3        \* longest list the file_uploader hands over
MaxPolls == 2        \* most PROCESSING answers the remote gives for one file
ConcMaxFiles == 1    \* longest list of each of two concurrent runs

\* --------------------------------------------------------------- constants
SleepSeconds == 10

Sessions == {"s1", "s2"}

\* A file name is its '.'-separated components: <<"a", "mp4">> is "a.mp4".
Names == {<<"a", "mp4">>, <<"b", "mov">>}

Urls == {"", "https://example.com/v.mp4", "https://youtu.be/x"}
Instructions == {"", "Analyze the video"}
Prompts == {"", "Summarise"}
Texts == {"reply"}

UploadOption == "Upload Video File(s)"
UrlOption == "Enter Video URL"

model_options == <<"gemini-2.0-flash-thinking-exp-01-21", "gemini-2.0-flash",
                   "gemini-2.0-pro-exp-02-05", "gemini-1.5-pro", "gemini-1.5-flash">>

\* st.selectbox left at its default, the first option
selected_model_name == model_options[1]

generation_config ==
    [temperature |-> "0.3", top_p |-> "0.3", top_k |-> 4,
     max_output_tokens |-> 65536, response_mime_type |-> "text/plain"]

VARIABLES
    GEMINI_API_KEY,          \* os.getenv result: a key or "None"
    fs,                      \* the local disk: path -> bytes, or Absent
    remote,                  \* the remote file store: asset name -> state
    cache,                   \* st.cache_resource of load_gemini_model
    pressed,                 \* st.button value of the run
    input_option,            \* st.radio value
    video_files,             \* st.file_uploader value (or None)
    video_url,               \* st.text_input value (or None)
    system_instruction_text,
    input_prompt_text,
    pc,                      \* position of the run
    idx,                     \* position of the running for loop
    uploaded_files,
    temp_video_paths,
    file,                    \* wait_for_files_active: the last fetched file
    response,                \* chat_session.send_message result
    err,                     \* the exception in flight
    rendered,                \* what the main area shows
    calls                    \* the calls the run made, in order

vars == <<GEMINI_API_KEY, fs, remote, cache, pressed, input_option, video_files,
          video_url, system_instruction_text, input_prompt_text, pc, idx,
          uploaded_files, temp_video_paths, file, response, err, rendered, calls>>

widgets == <<GEMINI_API_KEY, pressed, input_option, video_files, video_url,
             system_instruction_text, input_prompt_text>>

\* ----------------------------------------------------------------- values
SeqsUpTo(S, n) == UNION {[1..k -> S] : k \in 0..n}

None(empty) == [none |-> TRUE, val |-> empty]
Some(v) == [none |-> FALSE, val |-> v]

\* mutant: the handler only tests for None
Truthy_NotNone(w, empty) == ~w.none

\* Python truthiness of a widget value: None, [] and "" are falsy
Truthy(w, empty) == ~w.none /\ w.val # empty

\* The UploadedFile objects of session s for the chosen names: the i-th one
\* reads as its own bytes.
FilesOf(s, names) ==
    [i \in 1..Len(names) |->
        [name |-> names[i], data |-> [owner |-> s, idx |-> i, complete |-> TRUE]]]

NoAsset == <<"", 0>>
NoError == [kind |-> "None", asset |-> NoAsset]
Error(kind) == [kind |-> kind, asset |-> NoAsset]
NoFile == [name |-> NoAsset, state |-> "NONE"]
Blank == [kind |-> "none", text |-> "", error |-> NoError]

AssetNames == Sessions \X (1..MaxFiles)

Call(op, arg, res) == [op |-> op, arg |-> arg, res |-> res]

Last(q) == q[Len(q)]

\* the positions of log q whose call is op on arg
CallsOf(q, op, arg) == {i \in 1..Len(q) : q[i].op = op /\ q[i].arg = arg}

\* the positions of log q whose call is op
Ops(q, op) == {i \in 1..Len(q) : q[i].op = op}

\* ------------------------------------------------------------ pure helpers
\* line 82: "temp_video_" + video_file.name
TempPath(name) == [prefix |-> "temp_video_", name |-> name]

\* line 86: f"video/{video_path.split('.')[-1]}"
MimeType(video_path) == <<"video", Last(video_path.name)>>

Paths == {TempPath(n) : n \in Names}

\* the disk holds no file at a path
Absent == [owner |-> "", idx |-> 0, complete |-> FALSE]

\* line 103: os.path.exists
Exists(path) == fs[path] # Absent

\* ------------------------------------------------------------------- Init
TypeInit ==
    /\ GEMINI_API_KEY \in {"key", "None"}
    /\ fs = [p \in Paths |-> Absent]
    /\ remote = [a \in AssetNames |-> "NONE"]
    /\ cache = {}
    /\ idx = [s \in Sessions |-> 1]
    /\ uploaded_files = [s \in Sessions |-> <<>>]
    /\ temp_video_paths = [s \in Sessions |-> <<>>]
    /\ file = [s \in Sessions |-> NoFile]
    /\ response = [s \in Sessions |-> "None"]
    /\ err = [s \in Sessions |-> NoError]
    /\ rendered = [s \in Sessions |-> Blank]
    /\ calls = [s \in Sessions |-> <<>>]

\* the two text areas of a file run: both cleared, or both filled in
Wordings == {w \in Instructions \X Prompts : (w[1] = "") <=> (w[2] = "")}

\* lines 113-141: the sidebar widgets of one run, with lists of at most n files
WidgetStates(s, n) ==
    {[input_option |-> UploadOption,
      video_files |-> Some(FilesOf(s, names)),
      video_url |-> None(""),
      system_instruction_text |-> w[1], input_prompt_text |-> w[2]] :
        names \in SeqsUpTo(Names, n), w \in Wordings}
    \cup
    {[input_option |-> UrlOption,
      video_files |-> None(<<>>),
      video_url |-> Some(u),
      system_instruction_text |-> i, input_prompt_text |-> p] :
        u \in Urls, i \in Instructions, p \in Prompts}

Idle(s) == [input_option |-> UploadOption, video_files |-> Some(<<>>),
            video_url |-> None(""), system_instruction_text |-> "",
            input_prompt_text |-> ""]

WidgetsAre(w) ==
    /\ input_option = [s \in Sessions |-> w[s].input_option]
    /\ video_files = [s \in Sessions |-> w[s].video_files]
    /\ video_url = [s \in Sessions |-> w[s].video_url]
    /\ system_instruction_text = [s \in Sessions |-> w[s].system_instruction_text]
    /\ input_prompt_text = [s \in Sessions |-> w[s].input_prompt_text]

\* One run at a time: session s1 runs the script, s2 has no run.
Init ==
    /\ TypeInit
    /\ pc = [s \in Sessions |-> IF s = "s1" THEN "script" ELSE "done"]
    /\ \E b \in BOOLEAN : pressed = [s \in Sessions |-> s = "s1" /\ b]
    /\ \E w1 \in WidgetStates("s1", MaxFiles) :
           WidgetsAre([s \in Sessions |-> IF s = "s1" THEN w1 ELSE Idle(s)])

\* Two runs at once, both with Analyze pressed on a non-empty input.
ConcInit ==
    /\ TypeInit
    /\ pc = [s \in Sessions |-> "script"]
    /\ pressed = [s \in Sessions |-> TRUE]
    /\ \E w \in [Sessions -> UNION {WidgetStates(s, ConcMaxFiles) : s \in Sessions}] :
           /\ \A s \in Sessions : /\ w[s] \in WidgetStates(s, ConcMaxFiles)
                                  /\ \/ Truthy(w[s].video_files, <<>>)
                                     \/ Truthy(w[s].video_url, "")
                                  /\ w[s].system_instruction_text = ""
           /\ WidgetsAre(w)

\* ---------------------------------------------------------------- steps
Goto(s, l) == pc' = [pc EXCEPT ![s] = l]
Log(s, q) == calls' = [calls EXCEPT ![s] = @ \o q]

\* mutant: the exception is swallowed (except: pass)
Raise_Suppressed(s, e) == /\ err' = err
                          /\ Goto(s, "done")

\* an exception leaves the function and reaches the handler's except clause
Raise(s, e) == /\ err' = [err EXCEPT ![s] = e]
               /\ Goto(s, "except")

\* lines 155-184: the main area of the script
Run(s) ==
    /\ pc[s] = "script"
    /\ IF ~pressed[s]
       THEN /\ rendered' = [rendered EXCEPT ![s].kind = "info"]
            /\ Goto(s, "done")
            /\ UNCHANGED calls
       ELSE IF input_option[s] = UploadOption
       THEN IF Truthy(video_files[s], <<>>)
            THEN /\ Log(s, <<Call("analyze_video_from_files", video_files[s].val, "")>>)
                 /\ Goto(s, IF Len(video_files[s].val) > 0 THEN "write" ELSE "wait")
                 /\ UNCHANGED rendered
            ELSE /\ rendered' = [rendered EXCEPT ![s].kind = "warning"]
                 /\ Goto(s, "done")
                 /\ UNCHANGED calls
       ELSE IF input_option[s] = UrlOption
       THEN IF Truthy(video_url[s], "")
            THEN /\ Log(s, <<Call("analyze_video_from_url", video_url[s].val, "")>>)
                 /\ Goto(s, "url_load")
                 /\ UNCHANGED rendered
            ELSE /\ rendered' = [rendered EXCEPT ![s].kind = "warning"]
                 /\ Goto(s, "done")
                 /\ UNCHANGED calls
       ELSE /\ Goto(s, "done")
            /\ UNCHANGED <<rendered, calls>>
    /\ UNCHANGED <<widgets, fs, remote, cache, idx, uploaded_files, temp_video_paths,
                   file, response, err>>

\* lines 81-85: the temporary copy of the idx-th file.  open() or write() may
\* fail; a failed write leaves a truncated file.
Write(s) ==
    /\ pc[s] = "write"
    /\ LET video_file == video_files[s].val[idx[s]]
           video_path == TempPath(video_file.name)
       IN  /\ temp_video_paths' = [temp_video_paths EXCEPT ![s] = Append(@, video_path)]
           /\ \E outcome \in {"ok", "open fails", "write fails"} :
                /\ Log(s, <<Call("write", video_path, outcome)>>)
                /\ CASE outcome = "ok" ->
                          /\ fs' = [fs EXCEPT ![video_path] = video_file.data]
                          /\ Goto(s, "upload")
                          /\ UNCHANGED err
                     [] outcome = "open fails" ->
                          /\ Raise(s, Error("OSError"))
                          /\ UNCHANGED fs
                     [] outcome = "write fails" ->
                          /\ fs' = [fs EXCEPT ![video_path] =
                                       [video_file.data EXCEPT !.complete = FALSE]]
                          /\ Raise(s, Error("OSError"))
    /\ UNCHANGED <<widgets, remote, cache, idx, uploaded_files, file, response, rendered>>

\* mutant: the new asset is put in front
Collect_Prepend(list, asset) == <<asset>> \o list

\* line 86: uploaded_files.append(...)
Collect(list, asset) == Append(list, asset)

\* line 86 where the for loop goes after its idx-th pass
AfterUpload(s) == IF idx[s] < Len(video_files[s].val) THEN "write" ELSE "wait"

\* lines 38-43 and 86: upload_to_gemini of the temporary copy
Upload(s) ==
    /\ pc[s] = "upload"
    /\ LET video_path == Last(temp_video_paths[s])
           name == <<s, idx[s]>>
           sent == [path |-> video_path, mime_type |-> MimeType(video_path),
                    data |-> fs[video_path]]
           configure == Call("configure", GEMINI_API_KEY, "")
       IN  IF ~Exists(video_path)
           THEN /\ Log(s, <<configure, Call("upload_file", sent, NoAsset)>>)
                /\ Raise(s, Error("FileNotFoundError"))
                /\ UNCHANGED <<remote, uploaded_files, idx>>
           ELSE \E outcome \in {"UploadError", "PROCESSING", "ACTIVE"} :
                /\ Log(s, <<configure, Call("upload_file", sent,
                              IF outcome = "UploadError" THEN NoAsset ELSE name)>>)
                /\ IF outcome = "UploadError"
                   THEN /\ Raise(s, Error("UploadError"))
                        /\ UNCHANGED <<remote, uploaded_files, idx>>
                   ELSE /\ remote' = [remote EXCEPT ![name] = outcome]
                        /\ uploaded_files' = [uploaded_files EXCEPT ![s] =
                               Collect(@, [name |-> name, display_name |-> video_path])]
                        /\ Goto(s, AfterUpload(s))
                        /\ idx' = [idx EXCEPT ![s] = IF AfterUpload(s) = "write" THEN @ + 1 ELSE 1]
                        /\ UNCHANGED err
    /\ UNCHANGED <<widgets, fs, cache, temp_video_paths, file, response, rendered>>

\* how many times the run has seen the named file PROCESSING
ProcessingSeen(s, name) ==
    Cardinality({i \in CallsOf(calls[s], "get_file", name) : calls[s][i].res = "PROCESSING"})

\* lines 50 and 54: file = genai.get_file(name), after the calls in `before`.
\* The fetch answers with the state the remote holds at that moment; the
\* remote answers PROCESSING at most MaxPolls times for one file.
Fetch(s, name, before) ==
    /\ remote[name] = "PROCESSING" => ProcessingSeen(s, name) < MaxPolls
    /\ Log(s, before \o <<Call("get_file", name, remote[name])>>)
    /\ file' = [file EXCEPT ![s] = [name |-> name, state |-> remote[name]]]
    /\ Goto(s, "while")

\* lines 45-49 and 88: wait_for_files_active(uploaded_files) is entered
WaitForFilesActive(s) ==
    /\ pc[s] = "wait"
    /\ Log(s, <<Call("wait_for_files_active", uploaded_files[s], ""),
                Call("configure", GEMINI_API_KEY, "")>>)
    /\ Goto(s, IF Len(uploaded_files[s]) > 0 THEN "get_file" ELSE "load_model")
    /\ UNCHANGED <<widgets, fs, remote, cache, idx, uploaded_files, temp_video_paths,
                   file, response, err, rendered>>

\* lines 49-50: the first fetch of the idx-th file
GetFile(s) ==
    /\ pc[s] = "get_file"
    /\ Fetch(s, uploaded_files[s][idx[s]].name, <<>>)
    /\ UNCHANGED <<widgets, fs, remote, cache, idx, uploaded_files, temp_video_paths,
                   response, err, rendered>>

\* mutant: the loop re-fetches without sleeping
SleepCalls_NoSleep(name) == <<>>

\* lines 52-53: time.sleep(10) while waiting on the named file (the log
\* keeps the file the sleep was for as the call's argument)
SleepCalls(name) == <<Call("sleep", name, SleepSeconds)>>

\* mutant: the loop gives up on a file that is still PROCESSING
Sleep_GivesUp(s) ==
    /\ pc[s] = "while"
    /\ file[s].state = "PROCESSING"
    /\ Raise(s, Error("TimeoutError"))
    /\ UNCHANGED <<widgets, fs, remote, cache, idx, uploaded_files, temp_video_paths,
                   file, response, rendered, calls>>

\* lines 51-54: one pass of the while loop
Sleep(s) ==
    /\ pc[s] = "while"
    /\ file[s].state = "PROCESSING"
    /\ Fetch(s, uploaded_files[s][idx[s]].name, SleepCalls(uploaded_files[s][idx[s]].name))
    /\ UNCHANGED <<widgets, fs, remote, cache, idx, uploaded_files, temp_video_paths,
                   response, err, rendered>>

\* mutant: a file that FAILED is taken as ready
Failed_Never(f) == FALSE

\* line 55: the test that raises
Failed(f) == f.state # "ACTIVE"

\* lines 55-58: the file left PROCESSING
Check(s) ==
    /\ pc[s] = "while"
    /\ file[s].state # "PROCESSING"
    /\ IF Failed(file[s])
       THEN /\ Raise(s, [kind |-> "ProcessingFailed", asset |-> file[s].name])
            /\ UNCHANGED idx
       ELSE /\ IF idx[s] < Len(uploaded_files[s])
               THEN /\ idx' = [idx EXCEPT ![s] = @ + 1]
                    /\ Goto(s, "get_file")
               ELSE /\ idx' = [idx EXCEPT ![s] = 1]
                    /\ Goto(s, "load_model")
            /\ UNCHANGED err
    /\ UNCHANGED <<widgets, fs, remote, cache, uploaded_files, temp_video_paths,
                   file, response, rendered, calls>>

\* the remote side finishes processing a file, at its own pace
RemoteProgress(a) ==
    /\ remote[a] = "PROCESSING"
    /\ \E st \in {"ACTIVE", "FAILED"} : remote' = [remote EXCEPT ![a] = st]
    /\ UNCHANGED <<widgets, fs, cache, pc, idx, uploaded_files, temp_video_paths,
                   file, response, err, rendered, calls>>

\* lines 29-36: load_gemini_model under st.cache_resource
LoadGeminiModel(s, next) ==
    LET key == <<selected_model_name, generation_config, system_instruction_text[s]>>
    IN  IF key \in cache
        THEN /\ Goto(s, next)
             /\ UNCHANGED <<cache, calls, err>>
        ELSE \E ok \in BOOLEAN :
             /\ Log(s, <<Call("configure", GEMINI_API_KEY, ""),
                         Call("GenerativeModel", key, ok)>>)
             /\ IF ok THEN /\ cache' = cache \cup {key}
                           /\ Goto(s, next)
                           /\ UNCHANGED err
                      ELSE /\ Raise(s, Error("ModelError"))
                           /\ UNCHANGED cache

\* lines 64-71 and 92-99: model.start_chat with one user turn
StartChat(s, parts, next) ==
    \E ok \in BOOLEAN :
        /\ Log(s, <<Call("start_chat", <<[role |-> "user", parts |-> parts]>>, ok)>>)
        /\ IF ok THEN Goto(s, next) /\ UNCHANGED err
                 ELSE Raise(s, Error("AnalysisError"))

\* lines 72 and 100: chat_session.send_message(input_prompt)
SendMessage(s, next) ==
    \E r \in Texts \cup {"NoText", "error"} :
        /\ Log(s, <<Call("send_message", input_prompt_text[s], r)>>)
        /\ IF r = "error"
           THEN Raise(s, Error("AnalysisError")) /\ UNCHANGED response
           ELSE /\ response' = [response EXCEPT ![s] = r]
                /\ Goto(s, next)
                /\ UNCHANGED err

\* lines 73 and 105, then 162-164 and 176-178: response.text goes to the page
ReturnText(s) ==
    IF response[s] = "NoText"
    THEN Raise(s, Error("ValueError")) /\ UNCHANGED rendered
    ELSE /\ rendered' = [rendered EXCEPT ![s] = [kind |-> "markdown",
                                                 text |-> response[s], error |-> NoError]]
         /\ Goto(s, "done")
         /\ UNCHANGED err

\* ------------------------------------------- analyze_video_from_files, rest
\* line 90
FilesLoadModel(s) ==
    /\ pc[s] = "load_model"
    /\ LoadGeminiModel(s, "start_chat")
    /\ UNCHANGED <<widgets, fs, remote, idx, uploaded_files, temp_video_paths,
                   file, response, rendered>>

\* lines 92-99
FilesStartChat(s) ==
    /\ pc[s] = "start_chat"
    /\ StartChat(s, uploaded_files[s], "send_message")
    /\ UNCHANGED <<widgets, fs, remote, cache, idx, uploaded_files, temp_video_paths,
                   file, response, rendered>>

\* line 100, and the entry of the loop of line 102
FilesSendMessage(s) ==
    /\ pc[s] = "send_message"
    /\ SendMessage(s, IF Len(temp_video_paths[s]) > 0 THEN "exists" ELSE "return")
    /\ UNCHANGED <<widgets, fs, remote, cache, idx, uploaded_files, temp_video_paths,
                   file, rendered>>

\* line 102: where the cleanup loop goes after its idx-th pass
AfterCleanup(s) == IF idx[s] < Len(temp_video_paths[s]) THEN "exists" ELSE "return"

\* line 103: if os.path.exists(video_path)
CleanupExists(s) ==
    /\ pc[s] = "exists"
    /\ Log(s, <<Call("exists", temp_video_paths[s][idx[s]],
                     Exists(temp_video_paths[s][idx[s]]))>>)
    /\ IF Exists(temp_video_paths[s][idx[s]])
       THEN /\ Goto(s, "remove")
            /\ UNCHANGED idx
       ELSE /\ Goto(s, AfterCleanup(s))
            /\ idx' = [idx EXCEPT ![s] = @ + 1]
    /\ UNCHANGED <<widgets, fs, remote, cache, uploaded_files, temp_video_paths,
                   file, response, err, rendered>>

\* line 104: os.remove(video_path)
CleanupRemove(s) ==
    /\ pc[s] = "remove"
    /\ LET video_path == temp_video_paths[s][idx[s]]
       IN  IF Exists(video_path)
           THEN /\ Log(s, <<Call("remove", video_path, "ok")>>)
                /\ fs' = [fs EXCEPT ![video_path] = Absent]
                /\ Goto(s, AfterCleanup(s))
                /\ idx' = [idx EXCEPT ![s] = @ + 1]
                /\ UNCHANGED err
           ELSE /\ Log(s, <<Call("remove", video_path, "FileNotFoundError")>>)
                /\ Raise(s, Error("FileNotFoundError"))
                /\ UNCHANGED <<fs, idx>>
    /\ UNCHANGED <<widgets, remote, cache, uploaded_files, temp_video_paths,
                   file, response, rendered>>

\* line 105 and lines 160-164
FilesReturn(s) ==
    /\ pc[s] = "return"
    /\ ReturnText(s)
    /\ UNCHANGED <<widgets, fs, remote, cache, idx, uploaded_files, temp_video_paths,
                   file, response, calls>>

\* --------------------------------------------------- analyze_video_from_url
\* line 63
UrlLoadModel(s) ==
    /\ pc[s] = "url_load"
    /\ LoadGeminiModel(s, "url_start")
    /\ UNCHANGED <<widgets, fs, remote, idx, uploaded_files, temp_video_paths,
                   file, response, rendered>>

\* mutant: the URL is left out of the user turn
UrlParts_Empty(url) == <<>>

\* line 68: the parts of the user turn
UrlParts(url) == <<url>>

\* lines 64-71
UrlStartChat(s) ==
    /\ pc[s] = "url_start"
    /\ StartChat(s, UrlParts(video_url[s].val), "url_send")
    /\ UNCHANGED <<widgets, fs, remote, cache, idx, uploaded_files, temp_video_paths,
                   file, response, rendered>>

\* line 72
UrlSendMessage(s) ==
    /\ pc[s] = "url_send"
    /\ SendMessage(s, "url_return")
    /\ UNCHANGED <<widgets, fs, remote, cache, idx, uploaded_files, temp_video_paths,
                   file, rendered>>

\* line 73 and lines 174-178
UrlReturn(s) ==
    /\ pc[s] = "url_return"
    /\ ReturnText(s)
    /\ UNCHANGED <<widgets, fs, remote, cache, idx, uploaded_files, temp_video_paths,
                   file, response, calls>>

\* lines 165-166 and 179-180: except Exception as e: st.error(...)
Except(s) ==
    /\ pc[s] = "except"
    /\ rendered' = [rendered EXCEPT ![s] = [kind |-> "error", text |-> "",
                                            error |-> err[s]]]
    /\ Goto(s, "done")
    /\ UNCHANGED <<widgets, fs, remote, cache, idx, uploaded_files, temp_video_paths,
                   file, response, err, calls>>

\* ------------------------------------------------------------------- Next
FilesStep(s) ==
    \/ Run(s)
    \/ Write(s)
    \/ Upload(s)
    \/ WaitForFilesActive(s)
    \/ GetFile(s)
    \/ Sleep(s)
    \/ Check(s)
    \/ FilesLoadModel(s)
    \/ FilesStartChat(s)
    \/ FilesSendMessage(s)
    \/ CleanupExists(s)
    \/ CleanupRemove(s)
    \/ FilesReturn(s)
    \/ Except(s)

UrlStep(s) ==
    \/ UrlLoadModel(s)
    \/ UrlStartChat(s)
    \/ UrlSendMessage(s)
    \/ UrlReturn(s)

Next ==
    \/ \E s \in Sessions : FilesStep(s) \/ UrlStep(s)
    \/ \E a \in AssetNames : RemoteProgress(a)

Spec == Init /\ [][Next]_vars

ConcSpec == ConcInit /\ [][Next]_vars

\* One run of the file form, scheduled fairly (the script's thread keeps
\* running), with a remote side that finishes every file it is processing.
FairInit ==
    /\ Init
    /\ GEMINI_API_KEY = "key"
    /\ pressed["s1"]
    /\ Truthy(video_files["s1"], <<>>)
    /\ system_instruction_text["s1"] = ""

FairNext ==
    \/ \E s \in Sessions : FilesStep(s)
    \/ \E a \in AssetNames : RemoteProgress(a)

FairSpec ==
    /\ FairInit
    /\ [][FairNext]_vars
    /\ \A s \in Sessions : WF_vars(FilesStep(s))
    /\ \A a \in AssetNames : WF_vars(RemoteProgress(a))

\* ------------------------------------------------------------ log helpers
\* the run's calls of op, in order
CallsSeq(s, op) == LET IsOp(c) == c.op = op IN SelectSeq(calls[s], IsOp)

\* the answers the run got from get_file for the named file, in order
ObsOf(s, name) ==
    LET IsGet(c) == c.op = "get_file" /\ c.arg = name
        got == SelectSeq(calls[s], IsGet)
    IN  [k \in 1..Len(got) |-> got[k].res]

Sleeps(s, name) == Cardinality(CallsOf(calls[s], "sleep", name))

\* analyze_video_from_files / analyze_video_from_url was called in the run
\* (the handler's call is the first call of a run)
FilesCalled(s) == calls[s] # <<>> /\ calls[s][1].op = "analyze_video_from_files"
UrlCalled(s) == calls[s] # <<>> /\ calls[s][1].op = "analyze_video_from_url"

\* the call has returned or raised
Ended(s) == pc[s] \in {"except", "done"}

\* ------------------------------------------------------------------ claims

\* C1: when analyze_video_from_files has returned or raised, no temporary
\* file the call created exists any more; checked on the case the claim
\* singles out: 2 input files, both uploads succeed, the conversation raises.
C1_TempFilesGoneOnExit ==
    \A s \in Sessions :
        (/\ FilesCalled(s) /\ Ended(s)
         /\ Len(video_files[s].val) = 2 /\ Len(uploaded_files[s]) = 2
         /\ err[s].kind = "AnalysisError") =>
            \A i \in 1..Len(temp_video_paths[s]) : ~Exists(temp_video_paths[s][i])

\* C5: with the API key absent, no temporary file is written and no remote
\* operation is attempted; the run ends in an explicit configuration error.
C5_MissingKeyStopsThePipeline ==
    GEMINI_API_KEY = "None" =>
        \A s \in Sessions :
            /\ \A k \in 1..Len(calls[s]) :
                   calls[s][k].op \notin {"write", "upload_file", "get_file",
                                          "start_chat", "send_message"}
            /\ (pressed[s] /\ pc[s] = "done" /\ rendered[s].kind # "warning")
                   => rendered[s].error.kind = "ConfigError"

\* C6: temporary files are scoped per request: what a run wrote is still on
\* the disk, unchanged, when the run uploads it; every upload sends the bytes
\* of the run's own input file; and the files of one request have distinct
\* temporary paths.
C6_TempFilesScopedPerRequest ==
    \A s \in Sessions :
        /\ pc[s] = "upload" =>
               fs[Last(temp_video_paths[s])] = video_files[s].val[idx[s]].data
        /\ \A k \in Ops(calls[s], "upload_file") :
               calls[s][k].arg.data.owner = s
        /\ \A i, j \in 1..Len(temp_video_paths[s]) :
               i # j => temp_video_paths[s][i] # temp_video_paths[s][j]

\* ---- the poller's log: the run's get_file and sleep calls, in order
AssetOf(s, i) == uploaded_files[s][i].name

PollLog(s) ==
    LET IsPoll(c) == c.op \in {"get_file", "sleep"} IN SelectSeq(calls[s], IsPoll)

\* the named file is the i-th one handed to the poller
IsAsset(s, name, i) == i \in 1..Len(uploaded_files[s]) /\ AssetOf(s, i) = name

\* C2: the poller takes the files in sequence order; it sleeps exactly once
\* per PROCESSING answer of a file (never after another answer); at the first
\* file that leaves PROCESSING for a state other than ACTIVE it raises an
\* error naming that file, and no later file is ever fetched or slept on.
C2_PollerSequence ==
    \A s \in Sessions :
        LET q == PollLog(s)
            n == Len(q)
        IN  /\ n > 0 => q[1].op = "get_file" /\ IsAsset(s, q[1].arg, 1)
            /\ \A k \in 1..n :
                   IF q[k].op = "sleep"
                   THEN \* a sleep comes right after a PROCESSING answer, and
                        \* the same file is fetched again after it
                        /\ k > 1 /\ k < n
                        /\ q[k - 1].op = "get_file" /\ q[k - 1].arg = q[k].arg
                        /\ q[k - 1].res = "PROCESSING"
                        /\ q[k + 1].op = "get_file" /\ q[k + 1].arg = q[k].arg
                   ELSE IF q[k].res = "PROCESSING"
                   THEN \* a PROCESSING answer is followed by one sleep for
                        \* that file (or the loop is about to sleep on it)
                        IF k < n THEN q[k + 1].op = "sleep" /\ q[k + 1].arg = q[k].arg
                                 ELSE /\ pc[s] = "while"
                                      /\ IsAsset(s, q[k].arg, idx[s])
                   ELSE IF q[k].res = "ACTIVE"
                   THEN \* an ACTIVE answer is followed by the first fetch of
                        \* the next file, and by nothing else
                        k < n =>
                            /\ q[k + 1].op = "get_file"
                            /\ \E i \in 1..Len(uploaded_files[s]) :
                                   IsAsset(s, q[k].arg, i) /\ IsAsset(s, q[k + 1].arg, i + 1)
                   ELSE \* any other answer ends the poll: the error names
                        \* the file and nothing is fetched or slept on after
                        /\ k = n
                        /\ pc[s] # "while" =>
                               err[s] = [kind |-> "ProcessingFailed", asset |-> q[k].arg]
            /\ err[s].kind = "ProcessingFailed" =>
                   /\ n > 0 /\ q[n].op = "get_file" /\ q[n].arg = err[s].asset
                   /\ q[n].res \notin {"PROCESSING", "ACTIVE"}

\* C2 witness: the answers [PROCESSING, PROCESSING, ACTIVE], [ACTIVE],
\* [PROCESSING, FAILED] gave 2, 0 and 1 sleeps and an error naming file 3.
C2_Witness ==
    \E s \in Sessions :
        /\ Len(uploaded_files[s]) = 3
        /\ ObsOf(s, AssetOf(s, 1)) = <<"PROCESSING", "PROCESSING", "ACTIVE">>
        /\ ObsOf(s, AssetOf(s, 2)) = <<"ACTIVE">>
        /\ ObsOf(s, AssetOf(s, 3)) = <<"PROCESSING", "FAILED">>
        /\ Sleeps(s, AssetOf(s, 1)) = 2
        /\ Sleeps(s, AssetOf(s, 2)) = 0
        /\ Sleeps(s, AssetOf(s, 3)) = 1
        /\ err[s] = [kind |-> "ProcessingFailed", asset |-> AssetOf(s, 3)]
        /\ pc[s] = "done"

\* the poller has returned normally: the run is at or past line 90
PastPoller(s) ==
    pc[s] \in {"load_model", "start_chat", "send_message", "exists", "remove", "return"}

\* C3: the poller returns normally only if every file handed to it was
\* fetched and last seen ACTIVE, and the conversation of the file form is
\* opened only after that: never while a submitted file was last seen
\* PROCESSING or FAILED.
C3_ConversationOnlyWhenAllActive ==
    \A s \in Sessions :
        (FilesCalled(s) /\ (PastPoller(s) \/ Ops(calls[s], "start_chat") # {}
                                          \/ Ops(calls[s], "send_message") # {})) =>
            /\ Len(uploaded_files[s]) = Len(video_files[s].val)
            /\ \A i \in 1..Len(uploaded_files[s]) :
                   LET seen == ObsOf(s, AssetOf(s, i))
                   IN  seen # <<>> /\ Last(seen) = "ACTIVE"

\* C3 witness: the conversation is about to receive its message, for two
\* files of which one was seen PROCESSING first.
C3_Witness ==
    \E s \in Sessions :
        /\ pc[s] = "send_message"
        /\ Len(uploaded_files[s]) = 2
        /\ \E i \in 1..2 : "PROCESSING" \in {ObsOf(s, AssetOf(s, i))[k] :
                                               k \in 1..Len(ObsOf(s, AssetOf(s, i)))}

\* C4: a press of Analyze calls at most one of the two entry points; exactly
\* one when the selected source's input is non-empty (the one of that
\* source), none when it is empty (a warning is shown); so the file form is
\* never called with an empty list.
C4_ExactlyOneEntryPoint ==
    \A s \in Sessions :
        LET files == Ops(calls[s], "analyze_video_from_files")
            urls == Ops(calls[s], "analyze_video_from_url")
            hasFiles == input_option[s] = UploadOption /\ ~video_files[s].none
                            /\ Len(video_files[s].val) > 0
            hasUrl == input_option[s] = UrlOption /\ ~video_url[s].none
                            /\ video_url[s].val # ""
        IN  /\ Cardinality(files) + Cardinality(urls) <= 1
            /\ \A k \in files : /\ calls[s][k].arg # <<>>
                                /\ hasFiles /\ calls[s][k].arg = video_files[s].val
            /\ \A k \in urls : hasUrl /\ calls[s][k].arg = video_url[s].val
            /\ ~pressed[s] => files \cup urls = {}
            /\ (pressed[s] /\ pc[s] # "script") =>
                   /\ hasFiles => Cardinality(files) = 1
                   /\ hasUrl => Cardinality(urls) = 1
                   /\ (~hasFiles /\ ~hasUrl) =>
                          /\ files \cup urls = {}
                          /\ rendered[s].kind = "warning"
                          /\ calls[s] = <<>>

\* C4 witness: Analyze was pressed on a non-empty file list and the file form
\* alone was called.
C4_Witness ==
    \E s \in Sessions :
        /\ pressed[s] /\ pc[s] = "done"
        /\ Len(video_files[s].val) = 2
        /\ Cardinality(Ops(calls[s], "analyze_video_from_files")) = 1
        /\ Ops(calls[s], "analyze_video_from_url") = {}

\* the exception a failed call of the log raises, "None" for a call that
\* did not fail
Raised(c) ==
    CASE c.op = "write" /\ c.res # "ok" -> "OSError"
      [] c.op = "upload_file" /\ c.res = NoAsset ->
             (IF c.arg.data = Absent THEN "FileNotFoundError" ELSE "UploadError")
      [] c.op = "GenerativeModel" /\ ~c.res -> "ModelError"
      [] c.op = "start_chat" /\ ~c.res -> "AnalysisError"
      [] c.op = "send_message" /\ c.res = "error" -> "AnalysisError"
      [] c.op = "remove" /\ c.res # "ok" -> "FileNotFoundError"
      [] OTHER -> "None"

\* C7: nothing is retried or suppressed below the handler: at most one
\* upload per input file, one start_chat and one send_message; a failed call
\* is the last call of the request and its exception is the one in flight;
\* once an exception is in flight the function has ended; and the handler
\* shows that same exception, never a result.
C7_NoRetryNoSuppression ==
    \A s \in Sessions :
        LET q == calls[s]
            ups == CallsSeq(s, "upload_file")
        IN  /\ Len(ups) <= Len(video_files[s].val)
            /\ \A i \in 1..Len(ups) :
                   ups[i].arg.path = TempPath(video_files[s].val[i].name)
            /\ Cardinality(Ops(q, "start_chat")) <= 1
            /\ Cardinality(Ops(q, "send_message")) <= 1
            /\ \A k \in 1..Len(q) :
                   Raised(q[k]) # "None" =>
                       /\ k = Len(q)
                       /\ err[s] = Error(Raised(q[k]))
            /\ err[s].kind = "ProcessingFailed" =>
                   /\ q[Len(q)].op = "get_file" /\ q[Len(q)].arg = err[s].asset
                   /\ q[Len(q)].res = "FAILED"
                   /\ Ops(q, "GenerativeModel") \cup Ops(q, "start_chat")
                          \cup Ops(q, "send_message") = {}
            /\ err[s] # NoError =>
                   /\ Ended(s)
                   /\ rendered[s].kind \in {"none", "error"}
            /\ (err[s] # NoError /\ pc[s] = "done") =>
                   rendered[s] = [kind |-> "error", text |-> "", error |-> err[s]]
            /\ rendered[s].kind = "error" => rendered[s].error # NoError
            /\ rendered[s].kind = "markdown" => err[s] = NoError

\* C7 witness: the upload of the second of three files failed; the request
\* ended there, with two uploads in all, and the page shows that error.
C7_Witness ==
    \E s \in Sessions :
        /\ Len(video_files[s].val) = 3
        /\ Len(CallsSeq(s, "upload_file")) = 2
        /\ Len(CallsSeq(s, "write")) = 2
        /\ Raised(Last(calls[s])) = "UploadError"
        /\ pc[s] = "done"
        /\ rendered[s] = [kind |-> "error", text |-> "", error |-> Error("UploadError")]

\* C8: the URL form opens one conversation whose single user turn has
\* exactly [url] as its parts, sends the prompt once, and its reply reaches
\* the page unmodified; it touches no local file, uploads nothing and polls
\* nothing - also with an empty system instruction and an empty prompt.
C8_UrlRoundTrip ==
    \A s \in Sessions :
        UrlCalled(s) =>
            LET q == calls[s]
                chats == CallsSeq(s, "start_chat")
                sends == CallsSeq(s, "send_message")
            IN  /\ \A k \in 1..Len(q) :
                       q[k].op \in {"analyze_video_from_url", "configure",
                                    "GenerativeModel", "start_chat", "send_message"}
                /\ Len(chats) <= 1
                /\ \A k \in 1..Len(chats) :
                       chats[k].arg = <<[role |-> "user", parts |-> <<video_url[s].val>>]>>
                /\ Len(sends) <= Len(chats)
                /\ \A k \in 1..Len(sends) : sends[k].arg = input_prompt_text[s]
                /\ \A p \in Paths : fs[p].owner # s
                /\ temp_video_paths[s] = <<>> /\ uploaded_files[s] = <<>>
                /\ \A a \in AssetNames : a[1] = s => remote[a] = "NONE"
                /\ (pc[s] = "done" /\ err[s] = NoError) =>
                       /\ Len(sends) = 1
                       /\ rendered[s] = [kind |-> "markdown", text |-> sends[1].res,
                                         error |-> NoError]
                /\ (Len(sends) = 1 /\ sends[1].res \in Texts /\ pc[s] = "done") =>
                       rendered[s].kind = "markdown" /\ rendered[s].text = sends[1].res

\* C8 witness: the URL of the spec's example went through with an empty
\* system instruction and an empty prompt, and the reply is on the page.
C8_Witness ==
    \E s \in Sessions :
        /\ video_url[s] = Some("https://example.com/v.mp4")
        /\ system_instruction_text[s] = "" /\ input_prompt_text[s] = ""
        /\ pc[s] = "done"
        /\ rendered[s].kind = "markdown" /\ rendered[s].text \in Texts

\* C9: when the conversation of the file form is opened, its parts are one
\* asset per input file in input order: the i-th part is the asset that the
\* upload of the temporary copy of the i-th input file (its path, its bytes)
\* returned, and the poller was called on that same sequence.
C9_AssetsInInputOrder ==
    \A s \in Sessions :
        FilesCalled(s) =>
            \A k \in Ops(calls[s], "start_chat") :
                LET parts == calls[s][k].arg[1].parts
                    ups == CallsSeq(s, "upload_file")
                    waits == CallsSeq(s, "wait_for_files_active")
                    files == video_files[s].val
                IN  /\ Len(parts) = Len(files)
                    /\ Len(ups) = Len(files)
                    /\ \A i \in 1..Len(files) :
                           /\ ups[i].arg.path = TempPath(files[i].name)
                           /\ ups[i].arg.data = files[i].data
                           /\ ups[i].res = parts[i].name
                    /\ \A i, j \in 1..Len(parts) : i # j => parts[i].name # parts[j].name
                    /\ Len(waits) = 1
                    /\ waits[1].arg = parts

\* C9 witness: a conversation was opened on three files, two of them with
\* the same file name.
C9_Witness ==
    \E s \in Sessions :
        /\ Ops(calls[s], "start_chat") # {}
        /\ Len(video_files[s].val) = 3
        /\ video_files[s].val[1].name = video_files[s].val[3].name
        /\ video_files[s].val[1].name # video_files[s].val[2].name

\* the run is inside wait_for_files_active
InPoller(s) == pc[s] \in {"wait", "get_file", "while"}

\* C10: the poller has no timeout.  With a remote that finishes every file
\* and a fairly scheduled loop, a run that is in the poller eventually leaves
\* it (it returns or raises); and it leaves it only when the file it is
\* waiting on has left PROCESSING, so while that file stays PROCESSING the
\* run reaches neither the conversation nor the cleanup.
C10_PollerRunsToItsEnd ==
    /\ \A s \in Sessions : InPoller(s) ~> ~InPoller(s)
    /\ [][\A s \in Sessions :
              (InPoller(s) /\ ~InPoller(s)') =>
                  /\ Len(uploaded_files[s]) > 0
                  /\ remote[AssetOf(s, idx[s])] # "PROCESSING"
                  /\ file[s].state # "PROCESSING"]_vars

\* C10 witness: the poller returned after it slept MaxPolls times on its
\* first file.
C10_Witness ==
    \E s \in Sessions :
        /\ PastPoller(s)
        /\ Sleeps(s, AssetOf(s, 1)) = MaxPolls

====
